---- MODULE Spec2Model ----
(***************************************************************************)
(* Model of the boosted creature / boss tracker.                           *)
(*                                                                         *)
(*   Spec         the update controller, TibiaBot.post_boosted_updates     *)
(*                (src/main.py), run by up to MaxCalls invocations that    *)
(*                interleave at its await points;                          *)
(*   SpecRequest  the retry loop of TibiaAPI._make_request                 *)
(*                (src/bot/tibia_api.py);                                  *)
(*   SpecSummary  TibiaAPI.get_boosted_creatures and its two requests;     *)
(*   SpecDetails  TibiaAPI.get_creature_details, called with two names;    *)
(*   SpecStatus   the controller with /status commands (status_command,    *)
(*                src/main.py) running beside its calls;                   *)
(*   SpecTicks    up to MaxTicks calls of the controller made one after    *)
(*                the other.                                               *)
(***************************************************************************)
EXTENDS Integers, Sequences, FiniteSets, TLC

\* ------------------------------------------------------------------ bounds
\* Number of post_boosted_updates invocations (timer ticks, /update commands).
MaxCalls == 2
\* Largest value of the retries argument of _make_request (its default is 3).
MaxRetries == 3

\* ------------------------------------------------------------------ values
\* Python's None.
Absent == "None"

CreatureNames == {"Bear", "Wolf"}

BossNames == {"Ferumbras"}

Slots == {"creature", "boss"}

Calls == 1..MaxCalls

\* What get_boosted_creatures can return to the controller: None, or a dict
\* in which at least one of the two names is set (tibia_api.py 103-113).
\* The dict's timestamp only travels to the embed builder and is left out.
BoostedData ==
  {d \in [boosted_creature : CreatureNames \cup {Absent},
          boosted_boss : BossNames \cup {Absent}] :
     d.boosted_creature # Absent \/ d.boosted_boss # Absent}

\* The value None of boosted_data, written as the dict with neither name: no
\* dict get_boosted_creatures returns is of that form.
NoData == [boosted_creature |-> Absent, boosted_boss |-> Absent]

\* Exceptions that can come out of the embed builder or channel.send.
\* discord.Forbidden and discord.HTTPException are the two kinds the post
\* helpers name; "Exception" stands for any other Exception subclass.
DiscordErrors == {"Forbidden", "HTTPException"}

Exceptions == DiscordErrors \cup {"Exception"}

\* The result dict of post_boosted_updates as first built (main.py 100-104).
NewResult == [creature_posted |-> FALSE, boss_posted |-> FALSE, errors |-> <<>>]

FetchFailedMsg == "Failed to fetch boosted data"

PostErrorMsg == "Error posting boosted updates"

VARIABLES
  last_posted_creature,   \* TibiaBot.last_posted_creature
  last_posted_boss,       \* TibiaBot.last_posted_boss
  creature_channel_id,    \* TibiaBot.creature_channel_id (0: not configured)
  boss_channel_id,        \* TibiaBot.boss_channel_id (0: not configured)
  pc,                     \* per call: the await it is suspended at
  force_update,           \* per call: the force_update argument
  boosted_data,           \* per call: what get_boosted_creatures returned
  result,                 \* per call: the result dict
  compared,               \* per call and slot: last_posted_* as read by the change test
  sends,                  \* per call and slot: the channel.send call and its outcome
  details,                \* per call: slots get_creature_details was called for
  overlaps,               \* per call: the calls it ran concurrently with
  retries,                \* _make_request: the retries argument
  attempt,                \* _make_request: the loop variable
  responses,              \* _make_request: the responses of session.get so far
  sleeps,                 \* _make_request: the asyncio.sleep durations so far
  rpc,                    \* _make_request: "loop" (in session.get), "json", "sleep", "returned", "raised"
  data,                   \* _make_request: the returned value
  spc,                    \* get_boosted_creatures: the await it is suspended at
  world_data,             \* get_boosted_creatures: world_data
  bosses_data,            \* get_boosted_creatures: bosses_data
  requested,              \* get_boosted_creatures: the endpoints requested so far
  summary,                \* get_boosted_creatures: the returned value
  names,                  \* get_creature_details, per call: the creature_name argument
  dpc,                    \* get_creature_details, per call: "idle", "request" or "returned"
  paths,                  \* get_creature_details, per call: the endpoint requested
  creature_info,          \* get_creature_details, per call: the returned value
  status_pc,              \* status_command: the await it is suspended at, or how it ended
  status_reply,           \* status_command: what it last passed to followup.send
  ticks                   \* the calls that ran one after the other and are over

cvars == <<last_posted_creature, last_posted_boss, creature_channel_id,
           boss_channel_id, pc, force_update, boosted_data, result, compared,
           sends, details, overlaps>>

rvars == <<retries, attempt, responses, sleeps, rpc, data>>

\* get_boosted_creatures
svars == <<spc, world_data, bosses_data, requested, summary>>

\* get_creature_details
dvars == <<names, dpc, paths, creature_info>>

\* status_command
qvars == <<status_pc, status_reply>>

vars == <<cvars, rvars, svars, dvars, qvars, ticks>>

\* ------------------------------------------------------- update controller

\* Due without the comparison with the last posted name.
DueIgnoringLast(name, force, last) == name # Absent

\* The change test of main.py 118 and 125:
\*   name and (force_update or name != self.last_posted_X)
Due(name, force, last) == name # Absent /\ (force \/ name # last)

\* ChannelLookup without the test of the channel id (main.py 140, 164).
ChannelLookupIgnoringId(channel_id) == {"not_found", "resolved"}

\* What a post helper finds when it looks for its channel (main.py 140-147,
\* 164-171): it returns before the details fetch when the channel id is 0 or
\* get_channel finds no channel; otherwise it goes on to the fetch.
ChannelLookup(channel_id) ==
  IF channel_id = 0 THEN {"not_configured"} ELSE {"not_found", "resolved"}

\* except discord.Forbidden / except discord.HTTPException around channel.send
\* (main.py 155-160, 179-184): these are logged and swallowed.
SendHandled(e) == e \in DiscordErrors

\* How a channel.send outcome is recorded in sends: delivered, failed with an
\* error the post helper swallows, or raised out of the post helper.
SendStatus(outcome) ==
  IF outcome = "ok" THEN "ok"
  ELSE IF SendHandled(outcome) THEN "failed"
  ELSE "raised"

\* OuterCatches narrowed to the discord errors.
OuterCatchesDiscordOnly(e) == e \in DiscordErrors

\* except Exception of post_boosted_updates (main.py 131).
OuterCatches(e) == e \in Exceptions

Active == {d \in Calls : pc[d] \notin {"idle", "done", "raised"}}

\* The record of the change test: self.last_posted_X as read by
\* "name != self.last_posted_X", which Python evaluates only when name is set
\* and force_update is False.
Read(cmp, c, slot, name, last) ==
  IF name # Absent /\ ~force_update[c]
  THEN [cmp EXCEPT ![c][slot] = last]
  ELSE cmp

\* Raise with the result built anew in the except clause: the flags set so
\* far are lost.
RaiseResetsResult(c, res, e) ==
  IF OuterCatches(e)
  THEN /\ result' = [result EXCEPT ![c] = [NewResult EXCEPT !.errors = <<PostErrorMsg>>]]
       /\ pc' = [pc EXCEPT ![c] = "done"]
  ELSE /\ result' = [result EXCEPT ![c] = res]
       /\ pc' = [pc EXCEPT ![c] = "raised"]

\* An exception e propagates out of the try block of post_boosted_updates
\* (main.py 131-136): recorded in errors and the result returned.
Raise(c, res, e) ==
  IF OuterCatches(e)
  THEN /\ result' = [result EXCEPT ![c] = [res EXCEPT !.errors = Append(@, PostErrorMsg)]]
       /\ pc' = [pc EXCEPT ![c] = "done"]
  ELSE /\ result' = [result EXCEPT ![c] = res]
       /\ pc' = [pc EXCEPT ![c] = "raised"]

\* main.py 124-136 for call c, run without suspension up to the boss helper's
\* first await (or to the return), from creature state lpc, result res and
\* change-test record cmp.
BossStep(c, bd, lpc, res, cmp) ==
  /\ last_posted_creature' = lpc
  /\ compared' = Read(cmp, c, "boss", bd.boosted_boss, last_posted_boss)
  /\ IF Due(bd.boosted_boss, force_update[c], last_posted_boss)
     THEN \E ch \in ChannelLookup(boss_channel_id) :
            IF ch = "resolved"
            THEN /\ pc' = [pc EXCEPT ![c] = "boss_details"]
                 /\ result' = [result EXCEPT ![c] = res]
                 /\ UNCHANGED last_posted_boss
            ELSE /\ pc' = [pc EXCEPT ![c] = "done"]
                 /\ last_posted_boss' = bd.boosted_boss
                 /\ result' = [result EXCEPT ![c] = [res EXCEPT !.boss_posted = TRUE]]
     ELSE /\ pc' = [pc EXCEPT ![c] = "done"]
          /\ result' = [result EXCEPT ![c] = res]
          /\ UNCHANGED last_posted_boss

\* A timer tick (force_update False) or the /update command (True, main.py
\* 194) calls post_boosted_updates, which suspends in get_boosted_creatures.
\* Calls are numbered in the order they start.
Begin(c) ==
  /\ pc[c] = "idle"
  /\ \A d \in Calls : d < c => pc[d] # "idle"
  /\ \E force \in BOOLEAN : force_update' = [force_update EXCEPT ![c] = force]
  /\ pc' = [pc EXCEPT ![c] = "get_boosted"]
  /\ overlaps' = [d \in Calls |->
                    IF d = c THEN Active
                    ELSE IF d \in Active THEN overlaps[d] \cup {c}
                    ELSE overlaps[d]]
  /\ UNCHANGED <<last_posted_creature, last_posted_boss, creature_channel_id,
                 boss_channel_id, boosted_data, result, compared, sends, details>>
  /\ UNCHANGED <<rvars, svars, dvars, qvars, ticks>>

\* FetchFailed without the return of line 112: the code goes on to
\* boosted_data.get on None, which raises into the except clause.
FetchFailedNoReturn(c) ==
  /\ pc[c] = "get_boosted"
  /\ boosted_data' = [boosted_data EXCEPT ![c] = NoData]
  /\ result' = [result EXCEPT ![c].errors = Append(Append(@, FetchFailedMsg), PostErrorMsg)]
  /\ pc' = [pc EXCEPT ![c] = "done"]
  /\ UNCHANGED <<last_posted_creature, last_posted_boss, creature_channel_id,
                 boss_channel_id, force_update, compared, sends, details, overlaps>>
  /\ UNCHANGED <<rvars, svars, dvars, qvars, ticks>>

\* get_boosted_creatures returns None: main.py 110-112.
FetchFailed(c) ==
  /\ pc[c] = "get_boosted"
  /\ boosted_data' = [boosted_data EXCEPT ![c] = NoData]
  /\ result' = [result EXCEPT ![c].errors = Append(@, FetchFailedMsg)]
  /\ pc' = [pc EXCEPT ![c] = "done"]
  /\ UNCHANGED <<last_posted_creature, last_posted_boss, creature_channel_id,
                 boss_channel_id, force_update, compared, sends, details, overlaps>>
  /\ UNCHANGED <<rvars, svars, dvars, qvars, ticks>>

\* get_boosted_creatures returns a dict: main.py 114-118, into
\* _post_creature_update up to its first await, or on to the boss.
Fetched(c) ==
  /\ pc[c] = "get_boosted"
  /\ \E bd \in BoostedData :
       LET cmp == Read(compared, c, "creature", bd.boosted_creature, last_posted_creature) IN
       /\ boosted_data' = [boosted_data EXCEPT ![c] = bd]
       /\ IF Due(bd.boosted_creature, force_update[c], last_posted_creature)
          THEN \E ch \in ChannelLookup(creature_channel_id) :
                 IF ch = "resolved"
                 THEN /\ pc' = [pc EXCEPT ![c] = "creature_details"]
                      /\ compared' = cmp
                      /\ UNCHANGED <<last_posted_creature, last_posted_boss, result>>
                 ELSE BossStep(c, bd, bd.boosted_creature,
                               [result[c] EXCEPT !.creature_posted = TRUE], cmp)
          ELSE BossStep(c, bd, last_posted_creature, result[c], cmp)
  /\ UNCHANGED <<creature_channel_id, boss_channel_id, force_update, sends,
                 details, overlaps>>
  /\ UNCHANGED <<rvars, svars, dvars, qvars, ticks>>

\* get_creature_details has returned in _post_creature_update (main.py
\* 150-156): the embed is built, which may raise, and channel.send is awaited.
\* The details (a dict or None) only travel to the embed builder.
CreatureDetails(c) ==
  /\ pc[c] = "creature_details"
  /\ details' = [details EXCEPT ![c] = @ \cup {"creature"}]
  /\ \/ /\ pc' = [pc EXCEPT ![c] = "creature_send"]
        /\ sends' = [sends EXCEPT ![c]["creature"] = "pending"]
        /\ UNCHANGED result
     \/ /\ Raise(c, result[c], "Exception")
        /\ UNCHANGED sends
  /\ UNCHANGED <<last_posted_creature, last_posted_boss, creature_channel_id,
                 boss_channel_id, force_update, boosted_data, compared, overlaps>>
  /\ UNCHANGED <<rvars, svars, dvars, qvars, ticks>>

\* CreatureSent without the assignment of line 120: last_posted_creature
\* stays as it was.
CreatureSentKeepsLast(c) ==
  /\ pc[c] = "creature_send"
  /\ \E outcome \in {"ok"} \cup Exceptions :
       /\ sends' = [sends EXCEPT ![c]["creature"] = SendStatus(outcome)]
       /\ IF outcome = "ok" \/ SendHandled(outcome)
          THEN BossStep(c, boosted_data[c], last_posted_creature,
                        [result[c] EXCEPT !.creature_posted = TRUE], compared)
          ELSE /\ Raise(c, result[c], outcome)
               /\ UNCHANGED <<last_posted_creature, last_posted_boss, compared>>
  /\ UNCHANGED <<creature_channel_id, boss_channel_id, force_update,
                 boosted_data, details, overlaps>>
  /\ UNCHANGED <<rvars, svars, dvars, qvars, ticks>>

\* channel.send has returned or raised in _post_creature_update (main.py
\* 155-160), then main.py 120-122 and on to the boss.
CreatureSent(c) ==
  /\ pc[c] = "creature_send"
  /\ \E outcome \in {"ok"} \cup Exceptions :
       /\ sends' = [sends EXCEPT ![c]["creature"] = SendStatus(outcome)]
       /\ IF outcome = "ok" \/ SendHandled(outcome)
          THEN BossStep(c, boosted_data[c], boosted_data[c].boosted_creature,
                        [result[c] EXCEPT !.creature_posted = TRUE], compared)
          ELSE /\ Raise(c, result[c], outcome)
               /\ UNCHANGED <<last_posted_creature, last_posted_boss, compared>>
  /\ UNCHANGED <<creature_channel_id, boss_channel_id, force_update,
                 boosted_data, details, overlaps>>
  /\ UNCHANGED <<rvars, svars, dvars, qvars, ticks>>

\* get_creature_details has returned in _post_boss_update (main.py 174-180).
BossDetails(c) ==
  /\ pc[c] = "boss_details"
  /\ details' = [details EXCEPT ![c] = @ \cup {"boss"}]
  /\ \/ /\ pc' = [pc EXCEPT ![c] = "boss_send"]
        /\ sends' = [sends EXCEPT ![c]["boss"] = "pending"]
        /\ UNCHANGED result
     \/ /\ Raise(c, result[c], "Exception")
        /\ UNCHANGED sends
  /\ UNCHANGED <<last_posted_creature, last_posted_boss, creature_channel_id,
                 boss_channel_id, force_update, boosted_data, compared, overlaps>>
  /\ UNCHANGED <<rvars, svars, dvars, qvars, ticks>>

\* channel.send has returned or raised in _post_boss_update (main.py
\* 179-184), then main.py 127-136.
BossSent(c) ==
  /\ pc[c] = "boss_send"
  /\ \E outcome \in {"ok"} \cup Exceptions :
       /\ sends' = [sends EXCEPT ![c]["boss"] = SendStatus(outcome)]
       /\ IF outcome = "ok" \/ SendHandled(outcome)
          THEN /\ last_posted_boss' = boosted_data[c].boosted_boss
               /\ result' = [result EXCEPT ![c].boss_posted = TRUE]
               /\ pc' = [pc EXCEPT ![c] = "done"]
          ELSE /\ Raise(c, result[c], outcome)
               /\ UNCHANGED last_posted_boss
  /\ UNCHANGED <<last_posted_creature, creature_channel_id, boss_channel_id,
                 force_update, boosted_data, compared, details, overlaps>>
  /\ UNCHANGED <<rvars, svars, dvars, qvars, ticks>>

InitController ==
  /\ last_posted_creature = Absent
  /\ last_posted_boss = Absent
  /\ creature_channel_id \in {0, 1}
  /\ boss_channel_id \in {0, 2}
  /\ pc = [c \in Calls |-> "idle"]
  /\ force_update = [c \in Calls |-> FALSE]
  /\ boosted_data = [c \in Calls |-> NoData]
  /\ result = [c \in Calls |-> NewResult]
  /\ compared = [c \in Calls |-> [s \in Slots |-> "unread"]]
  /\ sends = [c \in Calls |-> [s \in Slots |-> "none"]]
  /\ details = [c \in Calls |-> {}]
  /\ overlaps = [c \in Calls |-> {}]

InitRequestIdle ==
  /\ retries = 0
  /\ attempt = 0
  /\ responses = <<>>
  /\ sleeps = <<>>
  /\ rpc = "idle"
  /\ data = Absent

\* ------------------------------------------------------------ _make_request

\* Parsed JSON documents a 200 response can carry.
Documents == {"doc_a", "doc_b"}

\* What one "async with session.get(url)" can do: answer with a status (a 200
\* carries a body that response.json() parses, or fails to parse), or raise
\* asyncio.TimeoutError or aiohttp.ClientError.
Responses ==
  [kind : {"200"}, json : Documents \cup {"malformed"}]
    \cup [kind : {"429", "500", "timeout", "client_error"}, json : {Absent}]

\* Attempts with the retries alone, the first attempt not counted.
AttemptsRetriesOnly(r) == r

\* for attempt in range(retries + 1): the number of iterations (line 49).
Attempts(r) == r + 1

\* WaitTime with the exponent one too high.
WaitTimeNextAttempt(a) == 2 ^ (a + 1)

\* wait_time = 2 ** attempt (lines 57 and 72).
WaitTime(a) == 2 ^ a

\* The exception an iteration's try block raises for a response, or Absent:
\* the two named kinds, and whatever response.json() raises on a body it
\* cannot parse (line 54).
Raised(resp) ==
  IF resp.kind = "timeout" THEN "TimeoutError"
  ELSE IF resp.kind = "client_error" THEN "ClientError"
  ELSE IF resp.kind = "200" /\ resp.json = "malformed" THEN "Exception"
  ELSE Absent

\* The except clauses of lines 64-69.
RequestCatches(e) == e \in {"TimeoutError", "ClientError", "Exception"}

\* The end of one iteration that did not return: the next iteration and its
\* session.get, or the loop is over and None is returned (lines 75-76).
NextAttempt ==
  IF attempt + 1 < Attempts(retries)
  THEN /\ attempt' = attempt + 1
       /\ rpc' = "loop"
       /\ UNCHANGED data
  ELSE /\ rpc' = "returned"
       /\ data' = Absent
       /\ UNCHANGED attempt

\* Lines 52-54: session.get answers with status 200 and the call suspends in
\* response.json(), the body yet to come.
RequestStatusOk ==
  /\ rpc = "loop"
  /\ rpc' = "json"
  /\ UNCHANGED <<retries, attempt, responses, sleeps, data>>
  /\ UNCHANGED <<cvars, svars, dvars, qvars, ticks>>

\* Lines 54-55: response.json() returns the parsed body; the document is
\* returned.
RequestOk ==
  /\ rpc = "json"
  /\ \E resp \in Responses :
       /\ resp.kind = "200"
       /\ Raised(resp) = Absent
       /\ responses' = Append(responses, resp)
       /\ data' = resp.json
  /\ rpc' = "returned"
  /\ UNCHANGED <<retries, attempt, sleeps>>
  /\ UNCHANGED <<cvars, svars, dvars, qvars, ticks>>

\* The failures of one iteration: in session.get another status than 200 and
\* 429 or an exception (lines 52, 61-66); in response.json() an exception on a
\* body it cannot parse (lines 54, 68).
Fails(resp) ==
  \/ rpc = "loop" /\ resp.kind # "200" /\ (resp.kind = "500" \/ Raised(resp) # Absent)
  \/ rpc = "json" /\ resp.kind = "200" /\ Raised(resp) # Absent

\* Lines 56-59: status 429; the call suspends in asyncio.sleep, whatever the
\* iteration.
RequestRateLimited ==
  /\ rpc = "loop"
  /\ \E resp \in Responses :
       /\ resp.kind = "429"
       /\ responses' = Append(responses, resp)
  /\ sleeps' = Append(sleeps, WaitTime(attempt))
  /\ rpc' = "sleep"
  /\ UNCHANGED <<retries, attempt, data>>
  /\ UNCHANGED <<cvars, svars, dvars, qvars, ticks>>

\* RequestFailed without the test of line 71: the sleep also follows the
\* last iteration.
RequestFailedAlwaysSleeps ==
  /\ \E resp \in Responses :
       /\ Fails(resp)
       /\ responses' = Append(responses, resp)
       /\ IF Raised(resp) # Absent /\ ~RequestCatches(Raised(resp))
          THEN /\ rpc' = "raised"
               /\ UNCHANGED <<attempt, sleeps, data>>
          ELSE /\ sleeps' = Append(sleeps, WaitTime(attempt))
               /\ rpc' = "sleep"
               /\ UNCHANGED <<attempt, data>>
  /\ UNCHANGED retries
  /\ UNCHANGED <<cvars, svars, dvars, qvars, ticks>>

\* Lines 61-73: another status, or an exception out of the try block, raised
\* by session.get or by response.json(). When an
\* iteration is left the call suspends in asyncio.sleep (line 73); after the
\* last iteration it returns None at once (lines 75-76). An exception no
\* clause catches leaves the call.
RequestFailed ==
  /\ \E resp \in Responses :
       /\ Fails(resp)
       /\ responses' = Append(responses, resp)
       /\ IF Raised(resp) # Absent /\ ~RequestCatches(Raised(resp))
          THEN /\ rpc' = "raised"
               /\ UNCHANGED <<attempt, sleeps, data>>
          ELSE IF attempt < retries
          THEN /\ sleeps' = Append(sleeps, WaitTime(attempt))
               /\ rpc' = "sleep"
               /\ UNCHANGED <<attempt, data>>
          ELSE /\ NextAttempt
               /\ UNCHANGED sleeps
  /\ UNCHANGED retries
  /\ UNCHANGED <<cvars, svars, dvars, qvars, ticks>>

\* asyncio.sleep has returned (line 59 followed by continue, or line 73): the
\* next iteration and its session.get, or the return of None.
RequestSlept ==
  /\ rpc = "sleep"
  /\ NextAttempt
  /\ UNCHANGED <<retries, responses, sleeps>>
  /\ UNCHANGED <<cvars, svars, dvars, qvars, ticks>>

InitRequest ==
  /\ retries \in 0..MaxRetries
  /\ attempt = 0
  /\ responses = <<>>
  /\ sleeps = <<>>
  /\ rpc = "loop"
  /\ data = Absent

NextRequest ==
  \/ RequestStatusOk
  \/ RequestOk
  \/ RequestRateLimited
  \/ RequestFailed
  \/ RequestSlept

\* --------------------------------------------------- get_boosted_creatures

Timestamps == {"2024-05-01T10:00:00Z"}

\* What _make_request("world/Antica") can return, by the parts of the
\* document get_boosted_creatures looks at.
\*   world        "missing": the document has no key 'world'; "null": the
\*                key holds null; "no_world_information": it holds a dict
\*                without 'world_information'; a name: the boosted_creature
\*                of world_information; Absent: world_information without
\*                a boosted_creature.
\*   information  "missing": no key 'information'; "null": the key holds
\*                null; a timestamp; Absent: a dict without 'timestamp'.
WorldData ==
  [world : {"missing", "null", "no_world_information", Absent} \cup CreatureNames,
   information : {"missing", "null", Absent} \cup Timestamps]

\* The value None of world_data (the request failed).
NoWorldData == [world |-> "no_doc", information |-> "no_doc"]

\* What _make_request("boostablebosses") can return.
\*   boostable_bosses  "missing": no key 'boostable_bosses'; "null": the key
\*                     holds null; "no_boosted": a dict without 'boosted' or
\*                     with a false one; "no_name": 'boosted' is a dict
\*                     without 'name'; a name: the name of 'boosted';
\*                     Absent: a null name.
BossesData ==
  [boostable_bosses : {"missing", "null", "no_boosted", "no_name", Absent} \cup BossNames]

\* The value None of bosses_data.
NoBossesData == [boostable_bosses |-> "no_doc"]

\* The value None of the result; a returned dict has one of the names set.
NoSummary == [boosted_creature |-> Absent, boosted_boss |-> Absent, timestamp |-> Absent]

\* Line 90 raises TypeError on "'world_information' in None".
WorldRaises(w) == w.world = "null"

\* Lines 89-92.
BoostedCreature(w) ==
  IF w = NoWorldData \/ w.world \in {"missing", "no_world_information"}
  THEN Absent
  ELSE w.world

\* Line 99 raises TypeError on "'boosted' in None", line 101 KeyError on a
\* 'boosted' without 'name'.
BossesRaises(b) == b.boostable_bosses \in {"null", "no_name"}

\* Lines 97-101.
BoostedBoss(b) ==
  IF b = NoBossesData \/ b.boostable_bosses \in {"missing", "no_boosted"}
  THEN Absent
  ELSE b.boostable_bosses

\* Line 107 raises AttributeError on None.get('timestamp').
TimestampRaises(w) == w # NoWorldData /\ w.information = "null"

\* Line 107.
Timestamp(w) ==
  IF w = NoWorldData \/ w.information = "missing" THEN Absent ELSE w.information

\* Lines 103-117: the dict, or None when neither name is set or building the
\* dict raised.
Summarize(w, b) ==
  IF BoostedCreature(w) # Absent \/ BoostedBoss(b) # Absent
  THEN IF TimestampRaises(w)
       THEN NoSummary
       ELSE [boosted_creature |-> BoostedCreature(w),
             boosted_boss |-> BoostedBoss(b),
             timestamp |-> Timestamp(w)]
  ELSE NoSummary

\* get_boosted_creatures is called: the first request is made (line 87).
SummaryBegin ==
  /\ spc = "idle"
  /\ spc' = "world_request"
  /\ requested' = Append(requested, "world/Antica")
  /\ UNCHANGED <<world_data, bosses_data, summary>>
  /\ UNCHANGED <<cvars, rvars, dvars, qvars, ticks>>

\* The first request has returned: lines 87-95, up to the second request, or
\* into the except clause of lines 115-117.
SummaryWorld ==
  /\ spc = "world_request"
  /\ \E w \in WorldData \cup {NoWorldData} :
       /\ world_data' = w
       /\ IF WorldRaises(w)
          THEN /\ spc' = "returned"
               /\ summary' = NoSummary
               /\ UNCHANGED requested
          ELSE /\ spc' = "bosses_request"
               /\ requested' = Append(requested, "boostablebosses")
               /\ UNCHANGED summary
  /\ UNCHANGED bosses_data
  /\ UNCHANGED <<cvars, rvars, dvars, qvars, ticks>>

\* The second request has returned: lines 95-117.
SummaryBosses ==
  /\ spc = "bosses_request"
  /\ \E b \in BossesData \cup {NoBossesData} :
       /\ bosses_data' = b
       /\ summary' = IF BossesRaises(b) THEN NoSummary ELSE Summarize(world_data, b)
  /\ spc' = "returned"
  /\ UNCHANGED <<world_data, requested>>
  /\ UNCHANGED <<cvars, rvars, dvars, qvars, ticks>>

InitSummaryIdle ==
  /\ spc = "idle"
  /\ world_data = NoWorldData
  /\ bosses_data = NoBossesData
  /\ requested = <<>>
  /\ summary = NoSummary

NextSummary == SummaryBegin \/ SummaryWorld \/ SummaryBosses

\* ----------------------------------------------------- get_creature_details

\* Longest creature_name, in characters.
MaxNameLen == 3

\* The characters of a creature_name: an upper case letter, the same letter
\* in lower case, the space and the underscore.
Chars == {"F", "f", " ", "_"}

\* Strings are sequences of characters; "" is <<>>.
Names == UNION {[1..n -> Chars] : n \in 0..MaxNameLen}

\* The value None of creature_name.
NoName == <<Absent>>

\* Two get_creature_details calls, to compare what they request.
DetailCalls == {1, 2}

\* No request made.
NoRequest == <<>>

\* What _make_request("creature/...") can return: None, a document without
\* the key 'creature', a document with it.
DetailsData == {Absent, "no_creature", "creature"}

\* str.strip(): the string without its leading and trailing spaces.
Strip(n) ==
  LET kept == {k \in 1..Len(n) : n[k] # " "} IN
  IF kept = {} THEN <<>>
  ELSE SubSeq(n, CHOOSE k \in kept : \A m \in kept : k <= m,
                 CHOOSE k \in kept : \A m \in kept : k >= m)

\* str.replace(' ', '_').
ReplaceSpaces(n) == [k \in 1..Len(n) |-> IF n[k] = " " THEN "_" ELSE n[k]]

\* str.lower().
LowerName(n) == [k \in 1..Len(n) |-> IF n[k] = "F" THEN "f" ELSE n[k]]

\* FormattedName with the name trimmed first.
FormattedNameTrimmed(n) == LowerName(ReplaceSpaces(Strip(n)))

\* formatted_name = creature_name.replace(' ', '_').lower() (line 134).
FormattedName(n) == LowerName(ReplaceSpaces(n))

\* f"creature/{formatted_name}" (line 136).
Endpoint(n) == <<"creature/">> \o FormattedName(n)

\* get_creature_details(names[i]) is called: lines 129-136, up to the request.
DetailsCall(i) ==
  /\ dpc[i] = "idle"
  /\ IF names[i] = NoName \/ names[i] = <<>>
     THEN /\ dpc' = [dpc EXCEPT ![i] = "returned"]
          /\ UNCHANGED paths
     ELSE /\ dpc' = [dpc EXCEPT ![i] = "request"]
          /\ paths' = [paths EXCEPT ![i] = Endpoint(names[i])]
  /\ UNCHANGED <<names, creature_info>>
  /\ UNCHANGED <<cvars, rvars, svars, qvars, ticks>>

\* The request has returned: lines 136-148.
DetailsReturn(i) ==
  /\ dpc[i] = "request"
  /\ \E d \in DetailsData :
       creature_info' = [creature_info EXCEPT
                           ![i] = IF d = "creature" THEN "creature_info" ELSE Absent]
  /\ dpc' = [dpc EXCEPT ![i] = "returned"]
  /\ UNCHANGED <<names, paths>>
  /\ UNCHANGED <<cvars, rvars, svars, qvars, ticks>>

\* No get_creature_details call under study.
InitDetailsIdle ==
  /\ names = [i \in DetailCalls |-> NoName]
  /\ dpc = [i \in DetailCalls |-> "returned"]
  /\ paths = [i \in DetailCalls |-> NoRequest]
  /\ creature_info = [i \in DetailCalls |-> Absent]

InitDetailsCalls ==
  /\ names \in [DetailCalls -> Names \cup {NoName}]
  /\ dpc = [i \in DetailCalls |-> "idle"]
  /\ paths = [i \in DetailCalls |-> NoRequest]
  /\ creature_info = [i \in DetailCalls |-> Absent]

NextDetails == \E i \in DetailCalls : DetailsCall(i) \/ DetailsReturn(i)

\* ----------------------------------------------------------- status_command

\* What the command last passed to interaction.followup.send, by kind and
\* with the two names shown in the embed.
StatusReply(kind, bd) ==
  [kind |-> kind, boosted_creature |-> bd.boosted_creature, boosted_boss |-> bd.boosted_boss]

\* Nothing sent by the command.
NoReply == StatusReply("none", NoData)

\* The /status command is invoked, any earlier one being over: it suspends
\* in interaction.response.defer() (line 222).
StatusBegin ==
  /\ status_pc \in {"idle", "returned", "raised"}
  /\ status_pc' = "defer"
  /\ status_reply' = NoReply
  /\ UNCHANGED <<cvars, rvars, svars, dvars, ticks>>

\* defer() has returned and the command suspends in get_boosted_creatures
\* (line 226), or defer() has raised: line 222 is outside the try block and
\* the exception ends the command.
StatusDeferred ==
  /\ status_pc = "defer"
  /\ \E deferred \in BOOLEAN :
       status_pc' = IF deferred THEN "get_boosted" ELSE "raised"
  /\ UNCHANGED status_reply
  /\ UNCHANGED <<cvars, rvars, svars, dvars, ticks>>

\* StatusFetched that also records the creature it shows as the last posted.
StatusFetchedRecords ==
  /\ status_pc = "get_boosted"
  /\ \E bd \in BoostedData \cup {NoData} :
       /\ status_reply' =
            IF bd = NoData THEN StatusReply("failed_to_fetch", NoData)
            ELSE StatusReply("status", bd)
       /\ last_posted_creature' = bd.boosted_creature
  /\ status_pc' = "reply"
  /\ UNCHANGED <<last_posted_boss, creature_channel_id, boss_channel_id, pc,
                 force_update, boosted_data, result, compared, sends, details,
                 overlaps>>
  /\ UNCHANGED <<rvars, svars, dvars, ticks>>

\* get_boosted_creatures has returned in the command: lines 226-247. The
\* command passes the failure text (line 229) or the embed of the two names
\* (line 247) to followup.send and suspends in it.
StatusFetched ==
  /\ status_pc = "get_boosted"
  /\ \E bd \in BoostedData \cup {NoData} :
       status_reply' =
         IF bd = NoData THEN StatusReply("failed_to_fetch", NoData)
         ELSE StatusReply("status", bd)
  /\ status_pc' = "reply"
  /\ UNCHANGED <<cvars, rvars, svars, dvars, ticks>>

\* The followup.send of line 229 or 247 has returned, and the command
\* returns; or it has raised, and the except clause passes the text that the
\* command failed to followup.send and suspends in it (lines 249-251).
StatusReplied ==
  /\ status_pc = "reply"
  /\ \E sent \in BOOLEAN :
       IF sent
       THEN /\ status_pc' = "returned"
            /\ UNCHANGED status_reply
       ELSE /\ status_pc' = "failure_reply"
            /\ status_reply' = StatusReply("command_failed", NoData)
  /\ UNCHANGED <<cvars, rvars, svars, dvars, ticks>>

\* The followup.send of line 251 has returned, and the command returns; or
\* it has raised, and the exception ends the command.
StatusFailureReplied ==
  /\ status_pc = "failure_reply"
  /\ \E sent \in BOOLEAN :
       status_pc' = IF sent THEN "returned" ELSE "raised"
  /\ UNCHANGED status_reply
  /\ UNCHANGED <<cvars, rvars, svars, dvars, ticks>>

InitStatusIdle ==
  /\ status_pc = "idle"
  /\ status_reply = NoReply

\* ---------------------------------------------------------- successive calls

\* Number of post_boosted_updates calls made one after the other.
MaxTicks == 3

\* What is kept of a call that is over.
TickRecord(c) ==
  [force_update |-> force_update[c], boosted_data |-> boosted_data[c],
   result |-> result[c], sends |-> sends[c]]

\* The call has returned and the next timer tick or /update command is yet
\* to come: the call's own values go, last_posted_creature and
\* last_posted_boss stay (main.py 51-52 are set at construction only).
TickOver ==
  /\ pc[1] = "done"
  /\ Len(ticks) + 1 < MaxTicks
  /\ ticks' = Append(ticks, TickRecord(1))
  /\ pc' = [pc EXCEPT ![1] = "idle"]
  /\ force_update' = [force_update EXCEPT ![1] = FALSE]
  /\ boosted_data' = [boosted_data EXCEPT ![1] = NoData]
  /\ result' = [result EXCEPT ![1] = NewResult]
  /\ compared' = [compared EXCEPT ![1] = [s \in Slots |-> "unread"]]
  /\ sends' = [sends EXCEPT ![1] = [s \in Slots |-> "none"]]
  /\ details' = [details EXCEPT ![1] = {}]
  /\ UNCHANGED <<last_posted_creature, last_posted_boss, creature_channel_id,
                 boss_channel_id, overlaps>>
  /\ UNCHANGED <<rvars, svars, dvars, qvars>>

\* One call at a time, each started after the one before has returned.
NextTicks ==
  \/ Begin(1)
  \/ FetchFailed(1)
  \/ Fetched(1)
  \/ CreatureDetails(1)
  \/ CreatureSent(1)
  \/ BossDetails(1)
  \/ BossSent(1)
  \/ TickOver

\* ------------------------------------------------------------ specifications

\* One _make_request call, nothing else running.
InitReq ==
  /\ InitController
  /\ InitRequest
  /\ InitSummaryIdle
  /\ InitDetailsIdle
  /\ InitStatusIdle
  /\ ticks = <<>>

SpecRequest == InitReq /\ [][NextRequest]_vars

\* One get_boosted_creatures call, nothing else running.
InitSummary ==
  /\ InitController
  /\ InitRequestIdle
  /\ InitSummaryIdle
  /\ InitDetailsIdle
  /\ InitStatusIdle
  /\ ticks = <<>>

SpecSummary == InitSummary /\ [][NextSummary]_vars

\* Two get_creature_details calls, nothing else running.
InitDetails ==
  /\ InitController
  /\ creature_channel_id = 1
  /\ boss_channel_id = 2
  /\ InitRequestIdle
  /\ InitSummaryIdle
  /\ InitDetailsCalls
  /\ InitStatusIdle
  /\ ticks = <<>>

SpecDetails == InitDetails /\ [][NextDetails]_vars

\* The calls of post_boosted_updates.
Init ==
  /\ InitController
  /\ InitRequestIdle
  /\ InitSummaryIdle
  /\ InitDetailsIdle
  /\ InitStatusIdle
  /\ ticks = <<>>

Next ==
  \E c \in Calls :
    \/ Begin(c)
    \/ FetchFailed(c)
    \/ Fetched(c)
    \/ CreatureDetails(c)
    \/ CreatureSent(c)
    \/ BossDetails(c)
    \/ BossSent(c)

Spec == Init /\ [][Next]_vars

SpecTicks == Init /\ [][NextTicks]_vars

\* The calls of post_boosted_updates with /status commands running beside them.
NextWithStatus ==
  \/ Next
  \/ StatusBegin
  \/ StatusDeferred
  \/ StatusFetched
  \/ StatusReplied
  \/ StatusFailureReplied

SpecStatus == Init /\ [][NextWithStatus]_vars
\* ------------------------------------------------------------------ claims

\* The name call c observed for slot s (Absent when there is none).
Observed(c, s) ==
  IF s = "creature" THEN boosted_data[c].boosted_creature
  ELSE boosted_data[c].boosted_boss

Posted(c, s) ==
  IF s = "creature" THEN result[c].creature_posted ELSE result[c].boss_posted

LastPosted(s) == IF s = "creature" THEN last_posted_creature ELSE last_posted_boss

ChannelId(s) == IF s = "creature" THEN creature_channel_id ELSE boss_channel_id

Returned(c) == pc[c] = "done"

\* channel.send was called for slot s in call c.
SendIssued(c, s) == sends[c][s] # "none"

\* The embed builder raised for slot s in call c: the details were fetched
\* and the call returned without calling channel.send.
RenderFault(c, s) == Returned(c) /\ s \in details[c] /\ sends[c][s] = "none"

\* The post helper of slot s returned early in call c, for want of a channel.
NoChannel(c, s) == Posted(c, s) /\ sends[c][s] = "none"

\* Slot s was due for posting in call c: its name is set and force_update is
\* True or the name differs from last_posted_s. Where the call never ran the
\* change test of s and ran alone, last_posted_s is still what the test would
\* have read.
WasDue(c, s) ==
  /\ Observed(c, s) # Absent
  /\ \/ force_update[c]
     \/ compared[c][s] # "unread" /\ Observed(c, s) # compared[c][s]
     \/ compared[c][s] = "unread" /\ overlaps[c] = {} /\ Observed(c, s) # LastPosted(s)

\* Call d follows call c with no call running beside either of them.
Succession(c, d) ==
  /\ d = c + 1
  /\ d \in Calls
  /\ overlaps[c] = {}
  /\ overlaps[d] = {}
  /\ Returned(c)
  /\ Returned(d)

\* C1: two overlapping calls with force_update False that observe the same
\* name V for a slot, each finding V different from last_posted, do not both
\* issue a send of V for that slot.
C1_NoDoublePost ==
  \A c \in Calls, d \in Calls, s \in Slots :
    ( /\ c # d
      /\ d \in overlaps[c]
      /\ ~force_update[c]
      /\ ~force_update[d]
      /\ Observed(c, s) # Absent
      /\ Observed(c, s) = Observed(d, s)
      /\ compared[c][s] \notin {"unread", Observed(c, s)}
      /\ compared[d][s] \notin {"unread", Observed(d, s)} )
    => ~(SendIssued(c, s) /\ SendIssued(d, s))

\* C2 as stated: of two calls in succession with force_update False and the
\* same fetched data, no slot is posted by both and the second call reports
\* both flags False.
C2_Idempotent ==
  \A c \in Calls, d \in Calls :
    ( /\ Succession(c, d)
      /\ ~force_update[c]
      /\ ~force_update[d]
      /\ boosted_data[c] = boosted_data[d] )
    => /\ \A s \in Slots : ~(Posted(c, s) /\ Posted(d, s))
       /\ \A s \in Slots : ~(sends[c][s] = "ok" /\ sends[d][s] = "ok")
       /\ ~result[d].creature_posted
       /\ ~result[d].boss_posted

\* C2 as amended: of two calls in succession with force_update False and the
\* same fetched data, no slot is posted by both (so the second call reports
\* False for every slot the first reported posted), and the second call
\* reports both flags False when the first call returned without errors.
C2_IdempotentAmended ==
  \A c \in Calls, d \in Calls :
    ( /\ Succession(c, d)
      /\ ~force_update[c]
      /\ ~force_update[d]
      /\ boosted_data[c] = boosted_data[d] )
    => /\ \A s \in Slots : ~(Posted(c, s) /\ Posted(d, s))
       /\ \A s \in Slots : ~(sends[c][s] = "ok" /\ sends[d][s] = "ok")
       /\ result[c].errors = <<>>
            => ~result[d].creature_posted /\ ~result[d].boss_posted

\* Two calls in succession fetched the same creature and boss; the first
\* sent and posted both, the second posted neither.
C2_Witness ==
  /\ Succession(1, 2)
  /\ ~force_update[1]
  /\ ~force_update[2]
  /\ boosted_data[1] = boosted_data[2]
  /\ Observed(1, "creature") # Absent
  /\ Observed(1, "boss") # Absent
  /\ sends[1]["creature"] = "ok"
  /\ sends[1]["boss"] = "ok"
  /\ result[1] = [creature_posted |-> TRUE, boss_posted |-> TRUE, errors |-> <<>>]
  /\ result[2] = NewResult

\* C3: when channel.send fails for a slot, the call's result has that
\* slot's posted flag False and an error message in errors.
C3_SendFailureReported ==
  \A c \in Calls, s \in Slots :
    (Returned(c) /\ sends[c][s] \in {"failed", "raised"})
    => ~Posted(c, s) /\ result[c].errors # <<>>

\* C4: last_posted_creature and last_posted_boss change only in a step in
\* which a channel.send for that slot succeeds.
C4_OnlyAfterSuccessfulSend ==
  [][ /\ last_posted_creature' # last_posted_creature
        => \E c \in Calls : /\ sends[c]["creature"] = "pending"
                            /\ sends'[c]["creature"] = "ok"
      /\ last_posted_boss' # last_posted_boss
        => \E c \in Calls : /\ sends[c]["boss"] = "pending"
                            /\ sends'[c]["boss"] = "ok" ]_vars

\* C5: in a call where the boss is observed and due (and a boss channel is
\* configured), a failure in the creature slot (a failed send, or a fault of
\* its rendering or send) does not keep the boss slot from being processed.
C5_BossIndependent ==
  \A c \in Calls :
    ( /\ Returned(c)
      /\ boss_channel_id # 0
      /\ \/ sends[c]["creature"] \in {"failed", "raised"}
         \/ RenderFault(c, "creature")
      /\ WasDue(c, "boss") )
    => Posted(c, "boss") \/ "boss" \in details[c]

\* C6: a call with force_update True attempts a send for every slot whose
\* name is observed (given a channel for the slot and an embed to send).
C6_ForceAlwaysSends ==
  \A c \in Calls, s \in Slots :
    ( /\ Returned(c)
      /\ force_update[c]
      /\ Observed(c, s) # Absent
      /\ ChannelId(s) # 0
      /\ ~NoChannel(c, s)
      /\ ~RenderFault(c, s) )
    => SendIssued(c, s)

\* C8: a send is issued for a slot if and only if the slot was due (given a
\* channel for the slot and an embed to send), and none is issued when
\* neither name is observed.
C8_SendIffDue ==
  \A c \in Calls, s \in Slots :
    /\ SendIssued(c, s) => WasDue(c, s)
    /\ ( /\ Returned(c)
         /\ WasDue(c, s)
         /\ ChannelId(s) # 0
         /\ ~NoChannel(c, s)
         /\ ~RenderFault(c, s) )
         => SendIssued(c, s)
    /\ (Returned(c) /\ boosted_data[c] = NoData)
         => ~SendIssued(c, s) /\ ~Posted(c, s)

\* A fault was raised in call c: the fetch failed, the embed builder raised,
\* or channel.send raised an exception the post helper does not handle.
Faulted(c) ==
  \/ boosted_data[c] = NoData
  \/ \E s \in Slots : RenderFault(c, s) \/ sends[c][s] = "raised"

\* C9: no call ends by raising; a call in which the fetch failed, the embed
\* builder raised or a send raised returns its result with the failure in
\* errors.
C9_NoExceptionEscapes ==
  \A c \in Calls :
    /\ pc[c] # "raised"
    /\ (Returned(c) /\ Faulted(c)) => result[c].errors # <<>>
\* A call returned after channel.send raised an exception that only the
\* except clause of post_boosted_updates catches; the error is in its result.
C9_Witness ==
  \E c \in Calls :
    /\ Returned(c)
    /\ sends[c]["creature"] = "raised"
    /\ result[c].errors = <<PostErrorMsg>>

\* C10: a call whose fetch returns None returns at once with both flags
\* False and exactly one error, having fetched no details, issued no send
\* and left last_posted_creature and last_posted_boss as they were.
C10_FetchFailureStops ==
  /\ [](\A c \in Calls :
         (Returned(c) /\ boosted_data[c] = NoData)
         => /\ ~result[c].creature_posted
            /\ ~result[c].boss_posted
            /\ Len(result[c].errors) = 1
            /\ details[c] = {}
            /\ \A s \in Slots : ~SendIssued(c, s))
  /\ [][\A c \in Calls :
          (pc[c] = "get_boosted" /\ pc'[c] # "get_boosted" /\ boosted_data'[c] = NoData)
          => /\ pc'[c] = "done"
             /\ last_posted_creature' = last_posted_creature
             /\ last_posted_boss' = last_posted_boss
             /\ sends' = sends
             /\ details' = details]_vars

\* A call's fetch failed after an earlier call had posted a creature: the
\* call returned with the one error and the posted name is still in place.
C10_Witness ==
  \E c \in Calls :
    /\ Returned(c)
    /\ boosted_data[c] = NoData
    /\ result[c] = [creature_posted |-> FALSE, boss_posted |-> FALSE,
                    errors |-> <<FetchFailedMsg>>]
    /\ last_posted_creature # Absent

\* The kinds of the responses so far.
Kinds == [i \in 1..Len(responses) |-> responses[i].kind]

\* The responses so far are of the kinds 200 (with a body that parses), 429,
\* another status, timeout and transport error.
WellFormed == \A i \in 1..Len(responses) : responses[i].json # "malformed"

\* C7: over responses of the kinds 200, 429, other status, timeout and
\* transport error, _make_request goes on until the first 200 or until
\* retries + 1 attempts are made: it never raises, it returns the document of
\* the first 200 having made as many attempts as that response's position,
\* and it returns None after exactly retries + 1 attempts when none is a 200.
C7_AttemptsUntilFirst200 ==
  WellFormed =>
    /\ rpc # "raised"
    /\ Len(responses) <= retries + 1
    /\ rpc \in {"loop", "json", "sleep"}
         => \A i \in 1..Len(responses) : responses[i].kind # "200"
    /\ rpc \in {"loop", "json"} => Len(responses) < retries + 1
    /\ rpc = "returned"
         => IF \E i \in 1..Len(responses) : responses[i].kind = "200"
            THEN /\ \A i \in 1..(Len(responses) - 1) : responses[i].kind # "200"
                 /\ responses[Len(responses)].kind = "200"
                 /\ data = responses[Len(responses)].json
            ELSE /\ Len(responses) = retries + 1
                 /\ data = Absent
    /\ (retries = 3 /\ Len(responses) = 3 /\ Kinds = <<"429", "429", "200">>)
         => rpc = "returned" /\ data = responses[3].json
    /\ (retries = 2 /\ Len(responses) = 3 /\ Kinds = <<"500", "500", "500">>)
         => rpc = "returned" /\ data = Absent

\* The scenario of the specification: 429, 429, 200 with retries = 3 returns
\* the document after three attempts.
C7_Witness ==
  /\ retries = 3
  /\ Kinds = <<"429", "429", "200">>
  /\ rpc = "returned"
  /\ data = "doc_a"

\* C12: a slot whose channel id is not configured (0) gets no details fetch
\* and no send in any call, no call raises, and the call still processes the
\* other slot: when that one is due the call marks it posted or goes as far
\* as its details fetch.
C12_UnconfiguredChannelSkipped ==
  \A c \in Calls : \A s \in Slots :
    ChannelId(s) = 0
    => /\ ~SendIssued(c, s)
       /\ s \notin details[c]
       /\ pc[c] # "raised"
       /\ \A o \in Slots \ {s} :
            (Returned(c) /\ WasDue(c, o)) => (Posted(c, o) \/ o \in details[c])

\* A call returned with no creature channel configured: the creature was due
\* and got no send, nothing was raised and the boss was sent.
C12_Witness ==
  \E c \in Calls :
    /\ creature_channel_id = 0
    /\ Returned(c)
    /\ WasDue(c, "creature")
    /\ ~SendIssued(c, "creature")
    /\ result[c].errors = <<>>
    /\ sends[c]["boss"] = "ok"

\* C14: the step in which a slot's send succeeds sets that slot's posted
\* flag and sets last_posted of the slot to the observed name, and leaves the
\* other slot's last_posted as it was unless that slot is posted in the same
\* step. A call running alone with force_update False that read
\* last_posted_creature = "Bear", observed the creature "Wolf" and no boss,
\* and whose send succeeded, made that one send and returns creature_posted
\* True, boss_posted False and no errors.
C14_SuccessfulSendRecorded ==
  /\ [](\A c \in Calls :
         (/\ Returned(c)
          /\ ~force_update[c]
          /\ overlaps[c] = {}
          /\ compared[c]["creature"] = "Bear"
          /\ boosted_data[c] = [boosted_creature |-> "Wolf", boosted_boss |-> Absent]
          /\ sends[c]["creature"] = "ok")
         => /\ sends[c]["boss"] = "none"
            /\ result[c] = [creature_posted |-> TRUE, boss_posted |-> FALSE,
                            errors |-> <<>>])
  /\ [][\A c \in Calls :
          /\ (pc[c] = "creature_send" /\ sends'[c]["creature"] = "ok")
               => /\ result'[c].creature_posted
                  /\ last_posted_creature' = boosted_data[c].boosted_creature
                  /\ ~result'[c].boss_posted => last_posted_boss' = last_posted_boss
          /\ (pc[c] = "boss_send" /\ sends'[c]["boss"] = "ok")
               => /\ result'[c].boss_posted
                  /\ last_posted_boss' = boosted_data[c].boosted_boss
                  /\ last_posted_creature' = last_posted_creature
                  /\ result'[c].creature_posted = result[c].creature_posted]_vars

\* The scenario of the specification: after "Bear" was posted, a call that
\* observed "Wolf" and no boss has sent the creature and returned.
C14_Witness ==
  \E c \in Calls :
    /\ Returned(c)
    /\ ~force_update[c]
    /\ overlaps[c] = {}
    /\ compared[c]["creature"] = "Bear"
    /\ boosted_data[c] = [boosted_creature |-> "Wolf", boosted_boss |-> Absent]
    /\ sends[c] = [creature |-> "ok", boss |-> "none"]
    /\ result[c] = [creature_posted |-> TRUE, boss_posted |-> FALSE, errors |-> <<>>]
    /\ last_posted_creature = "Wolf"
    /\ last_posted_boss = Absent

\* C16: a call fetches the details of a slot only when the slot is about to
\* be posted: never for a slot whose name is absent, and never with
\* force_update False for a slot whose name equals the last_posted value the
\* call read. A call makes one summary fetch, before any details fetch, and
\* fetches the details of a slot at most once, so at most two in all.
C16_DetailsOnlyWhenDue ==
  /\ [](\A c \in Calls :
         /\ \A s \in details[c] \cup {t \in Slots : pc[c] = t \o "_details"} :
              /\ Observed(c, s) # Absent
              /\ \/ force_update[c]
                 \/ compared[c][s] # "unread" /\ compared[c][s] # Observed(c, s)
         /\ pc[c] \in {"idle", "get_boosted"} => details[c] = {}
         /\ boosted_data[c] = NoData => details[c] = {})
  /\ [][\A c \in Calls :
          /\ pc[c] # "idle" => pc'[c] # "idle"
          /\ (pc'[c] = "get_boosted" /\ pc[c] # "get_boosted") => pc[c] = "idle"
          /\ details'[c] # details[c]
               => \E s \in Slots \ details[c] :
                    /\ pc[c] = s \o "_details"
                    /\ details'[c] = details[c] \cup {s}]_vars

\* A call with force_update False has returned having fetched the details of
\* the creature, whose name differed from last_posted_creature, and not of
\* the boss, whose name was the one last posted.
C16_Witness ==
  \E c \in Calls :
    /\ Returned(c)
    /\ ~force_update[c]
    /\ details[c] = {"creature"}
    /\ Observed(c, "boss") # Absent
    /\ compared[c]["boss"] = Observed(c, "boss")
    /\ compared[c]["creature"] \notin {"unread", Observed(c, "creature")}

\* C17: a 200 response whose body cannot be parsed ends the request: it is
\* the last attempt made, and the request returns None.
C17_MalformedNotRetried ==
  \A i \in 1..Len(responses) :
    (responses[i].kind = "200" /\ responses[i].json = "malformed")
    => /\ i = Len(responses)
       /\ rpc = "returned"
       /\ data = Absent

RECURSIVE SumSeq(_)
\* The sum of a sequence of numbers.
SumSeq(q) == IF q = <<>> THEN 0 ELSE Head(q) + SumSeq(Tail(q))

RECURSIVE SumPowers(_)
\* 2^0 + ... + 2^n.
SumPowers(n) == IF n < 0 THEN 0 ELSE 2 ^ n + SumPowers(n - 1)

\* C18: every backoff sleep of _make_request lasts 2^k seconds, k the index
\* of the failed attempt it follows, whatever the kind of failure; the sleeps
\* of one request add up to at most 2^0 + ... + 2^retries seconds.
C18_BackoffPowersOfTwo ==
  /\ [](SumSeq(sleeps) <= SumPowers(retries))
  /\ [][sleeps' # sleeps
          => /\ sleeps' = Append(sleeps, 2 ^ attempt)
             /\ Len(responses') = attempt + 1
             /\ responses'[attempt + 1].kind # "200"
                  \/ responses'[attempt + 1].json = "malformed"]_vars

\* A request with retries = 3 was answered 429, 500, timeout and 429: it has
\* slept 1, 2, 4 and 8 seconds, the bound of 15 seconds in all.
C18_Witness ==
  /\ retries = 3
  /\ Kinds = <<"429", "500", "timeout", "429">>
  /\ sleeps = <<1, 2, 4, 8>>
  /\ SumSeq(sleeps) = SumPowers(retries)
  /\ rpc = "returned"

\* C20: the step of the last attempt (index retries) adds no sleep, whatever
\* the kind of failure, 429 included.
C20_NoSleepAfterFinalAttempt ==
  [][(rpc \in {"loop", "json"} /\ attempt = retries) => sleeps' = sleeps]_vars

\* C20 as the code has it: a last attempt (index retries) that fails with
\* another status than 429, a timeout, a transport error or a body that does
\* not parse ends the request at once, with no sleep and None returned; a
\* last attempt answered 429 is followed by a sleep of 2^retries seconds, and
\* the request returns None when that sleep is over. A last attempt answered
\* 200 waits for its body without sleeping.
C20_NoSleepAfterFinalAttemptAmended ==
  [][/\ (rpc = "loop" /\ attempt = retries /\ responses' = responses)
          => rpc' = "json" /\ sleeps' = sleeps
     /\ (rpc \in {"loop", "json"} /\ attempt = retries /\ responses' # responses)
          => /\ Len(responses') = retries + 1
             /\ LET last == responses'[retries + 1] IN
                IF last.kind = "429"
                THEN /\ sleeps' = Append(sleeps, 2 ^ retries)
                     /\ rpc' = "sleep"
                ELSE /\ sleeps' = sleeps
                     /\ rpc' = "returned"
                     /\ (last.kind # "200" \/ last.json = "malformed") => data' = Absent
     /\ (rpc = "sleep" /\ attempt = retries)
          => /\ rpc' = "returned"
             /\ data' = Absent
             /\ sleeps' = sleeps
             /\ responses' = responses]_vars

\* A request with retries = 2 has returned None after a timeout on its last
\* attempt, having slept after the first two attempts only.
C20_Witness ==
  /\ retries = 2
  /\ Kinds = <<"500", "client_error", "timeout">>
  /\ sleeps = <<1, 2>>
  /\ rpc = "returned"
  /\ data = Absent

\* The name the world document carries for the boosted creature, the name
\* the bosses document carries for the boosted boss, and the timestamp the
\* world document carries (Absent where there is none).
CreatureIn(w) == IF w.world \in CreatureNames THEN w.world ELSE Absent

BossIn(b) == IF b.boostable_bosses \in BossNames THEN b.boostable_bosses ELSE Absent

TimestampIn(w) == IF w.information \in Timestamps THEN w.information ELSE Absent

\* C11: whatever the first request returned, get_boosted_creatures has made
\* both requests, world information then boostable bosses, when it returns;
\* it returns None only when neither response carries its name, and
\* otherwise the dict of the names the responses carry (Absent for the
\* missing one) with the timestamp of the world response (Absent when that
\* request failed).
C11_PartialSummary ==
  spc = "returned"
  => /\ requested = <<"world/Antica", "boostablebosses">>
     /\ IF CreatureIn(world_data) = Absent /\ BossIn(bosses_data) = Absent
        THEN summary = NoSummary
        ELSE summary = [boosted_creature |-> CreatureIn(world_data),
                        boosted_boss |-> BossIn(bosses_data),
                        timestamp |-> TimestampIn(world_data)]

\* Two characters that are the same up to case and to space against
\* underscore.
SameChar(x, y) == x = y \/ {x, y} = {"F", "f"} \/ {x, y} = {" ", "_"}

\* Two names that differ only in case and in spaces against underscores.
Alike(a, b) == Len(a) = Len(b) /\ \A k \in 1..Len(a) : SameChar(a[k], b[k])

\* Call i was made with a name that is neither None nor "".
Named(i) == dpc[i] # "idle" /\ names[i] # NoName /\ names[i] # <<>>

\* C19: a call with None or "" returns None without a request; two calls
\* whose names, not empty once trimmed, differ only in case, in spaces
\* against underscores or in surrounding whitespace request the same path.
C19_NormalizedPath ==
  /\ \A i \in DetailCalls :
       (dpc[i] # "idle" /\ ~Named(i))
       => paths[i] = NoRequest /\ dpc[i] = "returned" /\ creature_info[i] = Absent
  /\ \A i, j \in DetailCalls :
       (/\ Named(i) /\ Named(j)
        /\ Strip(names[i]) # <<>>
        /\ Alike(names[i], names[j]) \/ Alike(Strip(names[i]), Strip(names[j])))
       => paths[i] = paths[j]

\* C19 as the code has it: a call with None or "" returns None without a
\* request; any other name is requested as "creature/" followed by the name
\* with every space turned into an underscore and every letter into lower
\* case, no character removed, so that surrounding whitespace stays in the
\* path as underscores; two calls whose names differ only in case and in
\* spaces against underscores request the same path.
C19_NormalizedPathAmended ==
  /\ \A i \in DetailCalls :
       (dpc[i] # "idle" /\ ~Named(i))
       => paths[i] = NoRequest /\ dpc[i] = "returned" /\ creature_info[i] = Absent
  /\ \A i \in DetailCalls :
       Named(i)
       => /\ Len(paths[i]) = Len(names[i]) + 1
          /\ paths[i][1] = "creature/"
          /\ \A k \in 1..Len(names[i]) :
               /\ SameChar(paths[i][k + 1], names[i][k])
               /\ paths[i][k + 1] \in {"f", "_"}
  /\ \A i, j \in DetailCalls :
       (Named(i) /\ Named(j) /\ Alike(names[i], names[j])) => paths[i] = paths[j]
  /\ \A i, j \in DetailCalls :
       (Named(i) /\ Named(j) /\ names[i] = <<" ">> \o names[j]) => paths[i] # paths[j]

\* Two calls have returned, one made with "F f" and one with "f_f": both
\* requested creature/f_f.
C19_Witness ==
  /\ names = [i \in DetailCalls |-> IF i = 1 THEN <<"F", " ", "f">> ELSE <<"f", "_", "f">>]
  /\ \A i \in DetailCalls : dpc[i] = "returned" /\ creature_info[i] = "creature_info"
  /\ paths[1] = <<"creature/", "f", "_", "f">>
  /\ paths[2] = paths[1]

\* C13: a step of the /status command, in any interleaving with the calls of
\* post_boosted_updates, leaves last_posted_creature and last_posted_boss
\* and the rest of the bot's state as they are and sends nothing to the
\* creature or boss channel.
C13_StatusReadOnly ==
  [][(status_pc' # status_pc \/ status_reply' # status_reply)
       => /\ last_posted_creature' = last_posted_creature
          /\ last_posted_boss' = last_posted_boss
          /\ sends' = sends
          /\ cvars' = cvars]_vars

\* A /status command has shown the creature "Wolf" while "Bear" is the last
\* posted creature and a call of post_boosted_updates is suspended in its
\* creature send.
C13_Witness ==
  /\ status_pc = "returned"
  /\ status_reply = [kind |-> "status", boosted_creature |-> "Wolf", boosted_boss |-> Absent]
  /\ last_posted_creature = "Bear"
  /\ \E c \in Calls : pc[c] = "creature_send"

\* The name a finished call observed for slot s, and its posted flag.
TickObserved(t, s) ==
  IF s = "creature" THEN t.boosted_data.boosted_creature ELSE t.boosted_data.boosted_boss

TickPosted(t, s) ==
  IF s = "creature" THEN t.result.creature_posted ELSE t.result.boss_posted

\* Name v was posted for slot s by an earlier call, every call since then
\* observed no name for s, and the call that has now returned, with
\* force_update False, observed v again.
Reappeared(s, v) ==
  /\ v # Absent
  /\ Returned(1)
  /\ ~force_update[1]
  /\ Observed(1, s) = v
  /\ \E i \in 1..(Len(ticks) - 1) :
       /\ TickObserved(ticks[i], s) = v
       /\ TickPosted(ticks[i], s)
       /\ \A k \in (i + 1)..Len(ticks) : TickObserved(ticks[k], s) = Absent

\* C15: the call in which a posted name reappears after calls that observed
\* no name for the slot posts the name again.
C15_RepostAfterAbsent ==
  \A s \in Slots : \A v \in CreatureNames \cup BossNames :
    Reappeared(s, v) => Posted(1, s)

\* C15 as the code has it: the call in which a posted name reappears after
\* calls that observed no name for the slot does not post it again: the
\* calls in between left last_posted of the slot at the name, and the call
\* skips the slot, with no details fetch, no send and its posted flag False.
C15_NoRepostAfterAbsent ==
  \A s \in Slots : \A v \in CreatureNames \cup BossNames :
    Reappeared(s, v)
    => /\ LastPosted(s) = v
       /\ ~Posted(1, s)
       /\ ~SendIssued(1, s)
       /\ s \notin details[1]

\* "Wolf" was sent by a first call, a second call observed the boss only, and
\* a third call with force_update False has observed "Wolf" again and
\* returned without posting it.
C15_Witness ==
  /\ Reappeared("creature", "Wolf")
  /\ Len(ticks) = 2
  /\ ticks[1].sends["creature"] = "ok"
  /\ ticks[2].boosted_data = [boosted_creature |-> Absent, boosted_boss |-> "Ferumbras"]
  /\ result[1] = NewResult
  /\ last_posted_creature = "Wolf"

\* C21: the errors of a call's result never hold more than one entry, and
\* the result is never reset: a posted flag that is set stays set and an
\* error that is recorded stays recorded in every later step of the call, so
\* a call that marked the creature posted and then met a fault returns with
\* creature_posted True beside the one error.
C21_OneErrorFlagsKept ==
  /\ [](\A c \in Calls :
         /\ Len(result[c].errors) <= 1
         /\ (Returned(c) /\ sends[c]["creature"] \in {"ok", "failed"})
              => result[c].creature_posted
         /\ (Returned(c) /\ NoChannel(c, "creature") /\ Faulted(c))
              => result[c].creature_posted /\ Len(result[c].errors) = 1)
  /\ [][\A c \in Calls :
          /\ result[c].creature_posted => result'[c].creature_posted
          /\ result[c].boss_posted => result'[c].boss_posted
          /\ Len(result[c].errors) <= Len(result'[c].errors)
          /\ \A k \in 1..Len(result[c].errors) :
               result'[c].errors[k] = result[c].errors[k]]_vars

\* A call has sent the creature, met an exception in the boss send that only
\* the except clause of post_boosted_updates catches, and returned with
\* creature_posted True, boss_posted False and the one error.
C21_Witness ==
  \E c \in Calls :
    /\ Returned(c)
    /\ sends[c] = [creature |-> "ok", boss |-> "raised"]
    /\ result[c] = [creature_posted |-> TRUE, boss_posted |-> FALSE,
                    errors |-> <<PostErrorMsg>>]
====
